---------------------------- MODULE Spec2Model ----------------------------
(***************************************************************************)
(* A model of AgenticView (src/web-search.py): the coordinate resolution,  *)
(* the radius query against the spatial store, the concurrent similarity  *)
(* scoring, the threshold filter with its descending sort, and the report *)
(* synthesis, as get_result sequences them.                                *)
(*                                                                         *)
(* Text is a sequence of one-character strings, so that strip, splitlines, *)
(* replace and float are computed character by character.  A number is a   *)
(* record [m, e] standing for the decimal m / 10^e.                        *)
(***************************************************************************)
EXTENDS Integers, Sequences, FiniteSets, TLC

(***************************************************************************)
(* Text: the characters the model's texts are drawn from.  Within this     *)
(* alphabet Python's whitespace is the blank and the line feed, a line     *)
(* boundary is the line feed, and float() accepts an optional sign, digits *)
(* and at most one decimal point.                                          *)
(***************************************************************************)
Digits == {"0", "1", "2", "3", "4", "5", "6", "7", "8", "9"}

Whitespace == {" ", "\n"}

DigitValue(c) ==
    CASE c = "0" -> 0 [] c = "1" -> 1 [] c = "2" -> 2 [] c = "3" -> 3
      [] c = "4" -> 4 [] c = "5" -> 5 [] c = "6" -> 6 [] c = "7" -> 7
      [] c = "8" -> 8 [] c = "9" -> 9

RECURSIVE DigitsToNat(_)
DigitsToNat(s) ==
    IF s = <<>> THEN 0
    ELSE DigitsToNat(SubSeq(s, 1, Len(s) - 1)) * 10 + DigitValue(s[Len(s)])

RECURSIVE Pow10(_)
Pow10(e) == IF e = 0 THEN 1 ELSE 10 * Pow10(e - 1)

RECURSIVE LStrip(_)
LStrip(s) ==
    IF s = <<>> THEN s
    ELSE IF s[1] \in Whitespace THEN LStrip(Tail(s)) ELSE s

RECURSIVE RStrip(_)
RStrip(s) ==
    IF s = <<>> THEN s
    ELSE IF s[Len(s)] \in Whitespace THEN RStrip(SubSeq(s, 1, Len(s) - 1)) ELSE s

\* str.strip()
Strip(s) == RStrip(LStrip(s))

\* str.splitlines()[0] of a text that has a first line
RECURSIVE FirstLine(_)
FirstLine(s) ==
    IF s = <<>> THEN s
    ELSE IF s[1] = "\n" THEN <<>> ELSE <<s[1]>> \o FirstLine(Tail(s))

\* str.splitlines() of the empty text is the empty list: [0] raises IndexError
HasFirstLine(s) == s # <<>>

\* str.replace("%", "")
RECURSIVE RemovePct(_)
RemovePct(s) ==
    IF s = <<>> THEN s
    ELSE IF s[1] = "%" THEN RemovePct(Tail(s)) ELSE <<s[1]>> \o RemovePct(Tail(s))

AllDigits(s) == \A i \in 1..Len(s) : s[i] \in Digits

DotPositions(s) == {i \in 1..Len(s) : s[i] = "."}

Num(m, e) == [m |-> m, e |-> e]

NoNum == [ok |-> FALSE, v |-> Num(0, 0)]

\* float(text): [ok, v]; ok is FALSE where Python raises ValueError
ParseFloat(text) ==
    LET s    == Strip(text)
        sgn  == IF s # <<>> /\ s[1] = "-" THEN -1 ELSE 1
        body == IF s # <<>> /\ s[1] \in {"-", "+"} THEN Tail(s) ELSE s
        dots == DotPositions(body)
    IN  IF body = <<>> \/ Cardinality(dots) > 1 THEN NoNum
        ELSE IF dots = {} THEN
            IF AllDigits(body)
            THEN [ok |-> TRUE, v |-> Num(sgn * DigitsToNat(body), 0)]
            ELSE NoNum
        ELSE
            LET d     == CHOOSE i \in dots : TRUE
                whole == SubSeq(body, 1, d - 1)
                frac  == SubSeq(body, d + 1, Len(body))
            IN  IF AllDigits(whole) /\ AllDigits(frac) /\ Len(whole) + Len(frac) > 0
                THEN [ok |-> TRUE,
                      v  |-> Num(sgn * DigitsToNat(whole \o frac), Len(frac))]
                ELSE NoNum

\* a >= b and a = b on decimals
NumGE(a, b) == a.m * Pow10(b.e) >= b.m * Pow10(a.e)

NumEq(a, b) == a.m * Pow10(b.e) = b.m * Pow10(a.e)

IsInteger(a) == a.m % Pow10(a.e) = 0


(***************************************************************************)
(* Values of the request's coordinate fields: absent (None), a float, or a *)
(* text that float() has to parse.                                         *)
(***************************************************************************)
NoneVal == [t |-> "None", s |-> <<>>, v |-> Num(0, 0)]

FloatVal(m, e) == [t |-> "float", s |-> <<>>, v |-> Num(m, e)]

StrVal(s) == [t |-> "str", s |-> s, v |-> Num(0, 0)]

\* float(x): TypeError on None, ValueError on a text that is no number
ToFloat(x) ==
    CASE x.t = "None"  -> NoNum
      [] x.t = "float" -> [ok |-> TRUE, v |-> x.v]
      [] x.t = "str"   -> ParseFloat(x.s)

\* what googlemaps' geocode does: raises, returns no result, or returns places
GeocodeOutcomes ==
    { [kind |-> "error", lat |-> Num(0, 0),   lng |-> Num(0, 0)],
      [kind |-> "zero",  lat |-> Num(0, 0),   lng |-> Num(0, 0)],
      [kind |-> "ok",    lat |-> Num(-62, 1), lng |-> Num(1068, 1)] }

NoGeocode == [kind |-> "none", lat |-> Num(0, 0), lng |-> Num(0, 0)]

\* the requests a run is started with (longitude, latitude as the caller gives them)
Requests ==
    { [longitude |-> NoneVal, latitude |-> NoneVal],
      [longitude |-> StrVal(<<"1", "0", "6", ".", "8">>),
       latitude  |-> StrVal(<<"-", "6", ".", "2">>)],
      [longitude |-> FloatVal(200, 0), latitude |-> FloatVal(95, 0)],
      [longitude |-> FloatVal(1068, 1), latitude |-> StrVal(<<"x">>)] }

(***************************************************************************)
(* The spatial store: table objek_penilaian in its physical (scan) order.  *)
(* A row keeps what the query reads of it: kind stands for the row's text  *)
(* columns (pemberi_tugas, jenis_objek_text, ...), lon is the stored       *)
(* longitude column (possibly NULL), and dist is ST_Distance(t.geog, q.pt) *)
(* in metres for the point of the run's query.                             *)
(***************************************************************************)
Lon(v) == [null |-> FALSE, v |-> v]

LonNull == [null |-> TRUE, v |-> 0]

Row(kind, lon, dist) == [kind |-> kind, lon |-> lon, dist |-> dist]

\* SQL's  t.longitude <> 0 : NULL <> 0 is NULL, which WHERE does not accept
SqlNonZero(lon) == ~lon.null /\ lon.v # 0

\* LIMIT 20
NeighbourLimit == 20

\* the radius get_result asks for, in metres
DefaultRadius == 10000

\* ORDER BY leaves the order of rows of equal distance open
TieBreaks == {"scan", "reverse"}

\* the WHERE clause
Qualifies(row, distance_m) ==
    /\ row.dist <= distance_m
    /\ SqlNonZero(row.lon)
    /\ row.dist > 0

\* row i comes before row j under ORDER BY distance_m
Before(rows, i, j, tb) ==
    \/ rows[i].dist < rows[j].dist
    \/ /\ rows[i].dist = rows[j].dist
       /\ IF tb = "scan" THEN i < j ELSE i > j

Min(a, b) == IF a <= b THEN a ELSE b

\* the query without its LIMIT clause
find_neighbour_unlimited(rows, distance_m, tb) ==
    LET Q       == {i \in 1..Len(rows) : Qualifies(rows[i], distance_m)}
        rank(i) == 1 + Cardinality({j \in Q : Before(rows, j, i, tb)})
        at(p)   == CHOOSE i \in Q : rank(i) = p
    IN  [p \in 1..Cardinality(Q) |->
            [src |-> at(p), kind |-> rows[at(p)].kind, distance_m |-> rows[at(p)].dist]]

\* the data frame read_sql returns: src is the store row a record was read from
find_neighbour(rows, distance_m, tb) ==
    LET Q       == {i \in 1..Len(rows) : Qualifies(rows[i], distance_m)}
        rank(i) == 1 + Cardinality({j \in Q : Before(rows, j, i, tb)})
        at(p)   == CHOOSE i \in Q : rank(i) = p
    IN  [p \in 1..Min(Cardinality(Q), NeighbourLimit) |->
            [src |-> at(p), kind |-> rows[at(p)].kind, distance_m |-> rows[at(p)].dist]]

(***************************************************************************)
(* The language model behind responses.create, as a deterministic stub:    *)
(* its reply to a scoring call is decided by the candidate's text columns. *)
(***************************************************************************)
Reply(text) == [ok |-> TRUE, text |-> text]

ReplyError == [ok |-> FALSE, text |-> <<>>]

StubReply(kind) ==
    CASE kind = "A" -> Reply(<<"8", "5", "%">>)
      [] kind = "B" -> Reply(<<"2", "0", "%">>)
      [] kind = "C" -> Reply(<<" ", "4", "5", "%", "\n", "x">>)
      [] kind = "D" -> Reply(<<"1", "5", "0", "%">>)
      [] kind = "E" -> Reply(<<"x">>)
      [] kind = "F" -> Reply(<<" ", "\n">>)
      [] kind = "G" -> ReplyError
      [] kind = "H" -> Reply(<<"3", "0", "%">>)

\* _similarity_row: the first line of the stripped reply, or an exception
similarity_row(reply) ==
    IF ~reply.ok THEN [raised |-> TRUE, value |-> <<>>]
    ELSE IF ~HasFirstLine(Strip(reply.text)) THEN [raised |-> TRUE, value |-> <<>>]
    ELSE [raised |-> FALSE, value |-> FirstLine(Strip(reply.text))]

\* pct_to_float: float(str(s).replace("%", "").strip()), 0 on any exception
pct_to_float(s) ==
    LET r == ParseFloat(Strip(RemovePct(s)))
    IN  IF r.ok THEN r.v ELSE Num(0, 0)

\* the similarity threshold of the filter
Threshold == 30


\* neighbour["sim_num"] = neighbour["similarity_pct"].apply(pct_to_float)
SimNum(column) == [i \in 1..Len(column) |-> pct_to_float(column[i])]

\* neighbour[neighbour["sim_num"] >= 30]: the index labels that are kept
KeepIdx(keys) == {i \in 1..Len(keys) : NumGE(keys[i], Num(Threshold, 0))}

Arrangements(kept) ==
    {s \in [1..Cardinality(kept) -> kept] : \A p, q \in 1..Cardinality(kept) : p # q => s[p] # s[q]}

\* sort_values with ascending=True
sort_values_ascending(keys, kept) ==
    {s \in Arrangements(kept) :
        \A p, q \in 1..Len(s) : p < q => NumGE(keys[s[q]], keys[s[p]])}

\* sort_values("sim_num", ascending=False) with the default kind, which is not
\* a stable sort: every arrangement in non-increasing order of the key is an outcome
sort_values(keys, kept) ==
    {s \in Arrangements(kept) :
        \A p, q \in 1..Len(s) : p < q => NumGE(keys[s[p]], keys[s[q]])}

\* the rows of the data frame under the index labels order, with their score column
Frame(nb, column, order) ==
    [p \in 1..Len(order) |->
        [idx            |-> order[p],
         src            |-> nb[order[p]].src,
         kind           |-> nb[order[p]].kind,
         distance_m     |-> nb[order[p]].distance_m,
         similarity_pct |-> column[order[p]]]]

(***************************************************************************)
(* asyncio.gather over the scoring tasks: the children are kept in the     *)
(* order they were given, each finishes when its model call does, and the  *)
(* result list is read from the children in their given order.             *)
(***************************************************************************)
PendingTask == [st |-> "pending", value |-> <<>>]

\* a wait that returns with the first child that is done
GatherAnyDone(ts) == \E i \in 1..Len(ts) : ts[i].st = "done"

\* the barrier: gather's future is done once every child is
GatherAllDone(ts) == \A i \in 1..Len(ts) : ts[i].st = "done"

\* results collected as the children finish (as asyncio.as_completed gives them)
GatherByCompletion(ts, order) == [i \in 1..Len(ts) |-> ts[order[i]].value]

\* order is the order in which the children finished
GatherResults(ts, order) == [i \in 1..Len(ts) |-> ts[i].value]

\* the reputation check is switched off in the source
DO_NEWS == FALSE

Aman == "Aman!"

\* replies of the model to the conflict-summary and the reputation prompts
SummaryTexts == {"ringkasan-1", "ringkasan-2"}

NewsTexts == {"berita", "Aman!"}

NoReport == [summary |-> "", client_sentiment |-> ""]

\* the two fields taken from each other's argument
build_json_output_swapped(summary, client_sentiment) ==
    [summary |-> client_sentiment, client_sentiment |-> summary]

\* _build_json_output
build_json_output(summary, client_sentiment) ==
    [summary |-> summary, client_sentiment |-> client_sentiment]

(***************************************************************************)
(* Bounds and inputs of the model.                                         *)
(***************************************************************************)
\* rows in the store of a pipeline run
MaxStore == 3

\* rows in a store the radius query alone is run against
MaxBigStore == 40

\* the rows the pipeline's stores are built from
PipelinePool ==
    { Row("A", Lon(107), 10001),
      Row("A", Lon(107), 2500),
      Row("B", Lon(107), 5000),
      Row("C", Lon(107), 5000),
      Row("D", Lon(107), 10000),
      Row("E", Lon(107), 7500),
      Row("F", Lon(107), 8000),
      Row("G", Lon(107), 8500),
      Row("H", Lon(107), 9000) }

SeqsUpTo(S, n) == UNION {[1..k -> S] : k \in 0..n}

\* rows in a store of which every content is tried
MaxSmallStore == 2

\* the rows the small stores of the radius query are built from: the distances
\* around the self-match and around both radii, and the three kinds of longitude
NeighbourPool ==
    { Row("A", lon, dist) : lon \in {Lon(0), Lon(107), LonNull},
                           dist \in {0, 5000, 10000, 10001} }

\* the radii the radius query is tried with
Radii == {5000, 10000}

DistCycle == <<2500, 5000, 5000, 7500, 10000, 0, 2500, 10001, 1, 5000>>

\* row i of the big store of pattern (a, b): distances run through DistCycle in
\* steps of a from b, every seventh longitude is 0 and every eleventh is NULL
BigRow(i, a, b) ==
    Row("A",
        IF i % 7 = b THEN Lon(0) ELSE IF i % 11 = b THEN LonNull ELSE Lon(107),
        DistCycle[((a * i + b) % Len(DistCycle)) + 1])

\* stores with more rows in reach than the query's limit
BigStores ==
    { [i \in 1..n |-> BigRow(i, a, b)] : n \in 0..MaxBigStore, a \in 0..3, b \in 0..3 }


(***************************************************************************)
(* State of one call of get_result.                                        *)
(***************************************************************************)
VARIABLES
    pc,             \* the phase get_result is in
    parameter,      \* the request dict (validate_locations rewrites its coordinates)
    geo,            \* what the geocode call of this run did (NoGeocode: not called)
    gdf,            \* the request record create_gdf builds
    store,          \* the rows of the spatial store
    queryArgs,      \* the arguments of the radius query that was issued
    neighbour,      \* the data frame find_neighbour returned
    tasks,          \* the scoring tasks handed to asyncio.gather, by position
    completion,     \* the positions of the scoring tasks in the order they finished,
                    \* kept until the filter has read the column
    similarity_pct, \* the similarity_pct column
    ranked,         \* the filtered and sorted data frame
    sumTask,        \* the conflict-summary sub-operation
    newsTask,       \* the reputation sub-operation
    result,         \* what get_result returned
    calls,          \* the external calls issued so far, by collaborator
    failedAt,       \* the phase an exception left get_result from
    session,        \* st.session_state: result_ready, neighbour_df, json_result, history
    page            \* the submitted form and the message the submit handler showed

vars == <<pc, parameter, geo, gdf, store, queryArgs, neighbour, tasks, completion,
          similarity_pct, ranked, sumTask, newsTask, result, calls, failedAt,
          session, page>>

NoCalls == [geocode |-> 0, query |-> 0, score |-> 0, summary |-> 0, news |-> 0]

NoQuery == [distance_m |-> 0, lon |-> Num(0, 0), lat |-> Num(0, 0)]

NoGdf == [built |-> FALSE, lon |-> Num(0, 0), lat |-> Num(0, 0)]

IdleSub == [st |-> "pending", prompt |-> <<>>, text |-> ""]

NotReturned == [returned |-> FALSE, none |-> FALSE, table |-> <<>>, report |-> NoReport]

\* return None, None
NoResult == [returned |-> TRUE, none |-> TRUE, table |-> <<>>, report |-> NoReport]

\* st.session_state.json_result and a history entry's results: None or a report
JsNone == [none |-> TRUE, report |-> NoReport]

Js(report) == [none |-> FALSE, report |-> report]

\* st.session_state.neighbour_df: None or a data frame
DfNone == [none |-> TRUE, table |-> <<>>]

Df(table) == [none |-> FALSE, table |-> table]

\* the session state of a new browser session
NewSession ==
    [result_ready |-> FALSE, neighbour_df |-> DfNone, json_result |-> JsNone,
     history |-> <<>>]

\* the form as the page first shows it: the text inputs are empty
EmptyForm == [pemberi_tugas |-> "", alamat_lokasi |-> "", longitude |-> <<>>,
              latitude |-> <<>>]

IdlePage == [form |-> EmptyForm, shown |-> "none"]

InitRest ==
    /\ geo = NoGeocode
    /\ gdf = NoGdf
    /\ queryArgs = NoQuery
    /\ neighbour = <<>>
    /\ tasks = <<>>
    /\ completion = <<>>
    /\ similarity_pct = <<>>
    /\ ranked = <<>>
    /\ sumTask = IdleSub
    /\ newsTask = IdleSub
    /\ result = NotReturned
    /\ calls = NoCalls
    /\ failedAt = "none"

Init ==
    /\ pc = "RESOLVE_COORDS"
    /\ parameter \in Requests
    /\ store \in SeqsUpTo(PipelinePool, MaxStore)
    /\ InitRest
    /\ session = NewSession
    /\ page = IdlePage

Resolved(lon, lat) == [longitude |-> [t |-> "float", s |-> <<>>, v |-> lon],
                       latitude  |-> [t |-> "float", s |-> <<>>, v |-> lat]]

\* a validate_locations that goes on with the request after a failed lookup
OnGeocodeFailureProceed(param) == [ok |-> TRUE, param |-> param]

\* except Exception as e2: st.error(...); return None
OnGeocodeFailure(param) == [ok |-> FALSE, param |-> param]

\* validate_locations on the request param, g being what a geocode call would do:
\* [ok, param, geocoded]
validate_locations(param, g) ==
    LET lon == ToFloat(param.longitude)
        lat == ToFloat(param.latitude)
    IN  IF lon.ok /\ lat.ok
        THEN [ok |-> TRUE, param |-> Resolved(lon.v, lat.v), geocoded |-> FALSE]
        ELSE IF g.kind = "ok"
        THEN [ok |-> TRUE, param |-> Resolved(g.lng, g.lat), geocoded |-> TRUE]
        ELSE [ok       |-> OnGeocodeFailure(param).ok,
              param    |-> OnGeocodeFailure(param).param,
              geocoded |-> TRUE]

\* get_result, lines 201-203
ValidateLocations ==
    /\ pc = "RESOLVE_COORDS"
    /\ \E g \in GeocodeOutcomes :
         LET r == validate_locations(parameter, g)
         IN  /\ geo' = IF r.geocoded THEN g ELSE NoGeocode
             /\ calls' = IF r.geocoded THEN [calls EXCEPT !.geocode = @ + 1] ELSE calls
             /\ parameter' = r.param
             /\ IF r.ok
                THEN /\ pc' = "BUILD_REQUEST_RECORD"
                     /\ result' = result
                ELSE /\ pc' = "ABORT"
                     /\ result' = NoResult
    /\ UNCHANGED <<session, page>>
    /\ UNCHANGED <<gdf, store, queryArgs, neighbour, tasks, completion, similarity_pct,
                   ranked, sumTask, newsTask, failedAt>>

\* create_gdf
CreateGdf ==
    /\ pc = "BUILD_REQUEST_RECORD"
    /\ gdf' = [built |-> TRUE, lon |-> ToFloat(parameter.longitude).v,
               lat |-> ToFloat(parameter.latitude).v]
    /\ pc' = "QUERY_NEIGHBORS"
    /\ UNCHANGED <<session, page>>
    /\ UNCHANGED <<parameter, geo, store, queryArgs, neighbour, tasks, completion,
                   similarity_pct, ranked, sumTask, newsTask, result, calls, failedAt>>

\* find_neighbour(10000, float(parameter["longitude"]), float(parameter["latitude"]))
FindNeighbour ==
    /\ pc = "QUERY_NEIGHBORS"
    /\ queryArgs' = [distance_m |-> DefaultRadius,
                     lon |-> ToFloat(parameter.longitude).v,
                     lat |-> ToFloat(parameter.latitude).v]
    /\ calls' = [calls EXCEPT !.query = @ + 1]
    /\ \E tb \in TieBreaks : neighbour' = find_neighbour(store, DefaultRadius, tb)
    /\ pc' = "SCORE_CANDIDATES"
    /\ UNCHANGED <<session, page>>
    /\ UNCHANGED <<parameter, geo, gdf, store, tasks, completion, similarity_pct,
                   ranked, sumTask, newsTask, result, failedAt>>

\* pd.read_sql raises (the store cannot be reached): the run ends with the exception
FindNeighbourRaises ==
    /\ pc = "QUERY_NEIGHBORS"
    /\ queryArgs' = [distance_m |-> DefaultRadius,
                     lon |-> ToFloat(parameter.longitude).v,
                     lat |-> ToFloat(parameter.latitude).v]
    /\ calls' = [calls EXCEPT !.query = @ + 1]
    /\ pc' = "RAISED"
    /\ failedAt' = "QUERY_NEIGHBORS"
    /\ UNCHANGED <<session, page>>
    /\ UNCHANGED <<parameter, geo, gdf, store, neighbour, tasks, completion,
                   similarity_pct, ranked, sumTask, newsTask, result>>


\* _add_similarity_column on an empty frame: the column is [] and no task is made
AddSimilarityEmpty ==
    /\ pc = "SCORE_CANDIDATES"
    /\ Len(neighbour) = 0
    /\ similarity_pct' = <<>>
    /\ pc' = "FILTER_RANK"
    /\ UNCHANGED <<session, page>>
    /\ UNCHANGED <<parameter, geo, gdf, store, queryArgs, neighbour, tasks, completion,
                   ranked, sumTask, newsTask, result, calls, failedAt>>

\* tasks = [self._similarity_row(...) for _, row in neighbour_df.iterrows()]
\* and asyncio.gather(*tasks): one task per row, in row order
CreateTasks ==
    /\ pc = "SCORE_CANDIDATES"
    /\ Len(neighbour) > 0
    /\ tasks = <<>>
    /\ tasks' = [i \in 1..Len(neighbour) |-> PendingTask]
    /\ UNCHANGED <<session, page>>
    /\ UNCHANGED <<pc, parameter, geo, gdf, store, queryArgs, neighbour, completion,
                   similarity_pct, ranked, sumTask, newsTask, result, calls, failedAt>>

\* task i runs up to  await self.gpt_client_async.responses.create(...) ;
\* the event loop starts the tasks in the order gather was given them
IssueScoreCall(i) ==
    /\ pc = "SCORE_CANDIDATES"
    /\ i \in 1..Len(tasks)
    /\ tasks[i].st = "pending"
    /\ \A j \in 1..(i - 1) : tasks[j].st # "pending"
    /\ tasks' = [tasks EXCEPT ![i].st = "called"]
    /\ calls' = [calls EXCEPT !.score = @ + 1]
    /\ UNCHANGED <<session, page>>
    /\ UNCHANGED <<pc, parameter, geo, gdf, store, queryArgs, neighbour, completion,
                   similarity_pct, ranked, sumTask, newsTask, result, failedAt>>

\* every task of the gather has run its first step
AllStarted(ts) == \A j \in 1..Len(ts) : ts[j].st # "pending"

\* the model call of task i comes back and _similarity_row returns its first line;
\* the loop polls for replies only after the first steps of all the tasks, which
\* gather made ready together
ScoreCallReturns(i) ==
    /\ pc = "SCORE_CANDIDATES"
    /\ i \in 1..Len(tasks)
    /\ AllStarted(tasks)
    /\ tasks[i].st = "called"
    /\ LET r == similarity_row(StubReply(neighbour[i].kind))
       IN  /\ ~r.raised
           /\ tasks' = [tasks EXCEPT ![i] = [st |-> "done", value |-> r.value]]
    /\ completion' = Append(completion, i)
    /\ UNCHANGED <<session, page>>
    /\ UNCHANGED <<pc, parameter, geo, gdf, store, queryArgs, neighbour, similarity_pct,
                   ranked, sumTask, newsTask, result, calls, failedAt>>

\* the model call of task i raises, or its reply has no first line (IndexError):
\* the task ends with the exception; gather does not cancel the other tasks, and
\* get_result is woken with the exception only some loop turns later
ScoreCallRaises(i) ==
    /\ pc = "SCORE_CANDIDATES"
    /\ i \in 1..Len(tasks)
    /\ AllStarted(tasks)
    /\ tasks[i].st = "called"
    /\ similarity_row(StubReply(neighbour[i].kind)).raised
    /\ tasks' = [tasks EXCEPT ![i].st = "failed"]
    /\ completion' = Append(completion, i)
    /\ UNCHANGED <<session, page>>
    /\ UNCHANGED <<pc, parameter, geo, gdf, store, queryArgs, neighbour, similarity_pct,
                   ranked, sumTask, newsTask, result, calls, failedAt>>

\* gather's future carries the exception of the first child that raised
GatherAnyFailed(ts) == \E i \in 1..Len(ts) : ts[i].st = "failed"

\* await asyncio.gather(*tasks) raises in _add_similarity_column, which nothing
\* there or in get_result handles; tasks whose replies came in before this step
\* have finished, the others are left as they are
GatherScoresRaises ==
    /\ pc = "SCORE_CANDIDATES"
    /\ GatherAnyFailed(tasks)
    /\ pc' = "RAISED"
    /\ failedAt' = "SCORE_CANDIDATES"
    /\ UNCHANGED <<session, page>>
    /\ UNCHANGED <<parameter, geo, gdf, store, queryArgs, neighbour, tasks, completion,
                   similarity_pct, ranked, sumTask, newsTask, result, calls>>

\* neighbour_df["similarity_pct"] = await asyncio.gather(*tasks)
GatherScores ==
    /\ pc = "SCORE_CANDIDATES"
    /\ Len(tasks) > 0
    /\ GatherAllDone(tasks)
    /\ similarity_pct' = GatherResults(tasks, completion)
    /\ pc' = "FILTER_RANK"
    /\ UNCHANGED <<session, page>>
    /\ UNCHANGED <<parameter, geo, gdf, store, queryArgs, neighbour, tasks, completion,
                   ranked, sumTask, newsTask, result, calls, failedAt>>

\* get_result, lines 213-221: parse, keep >= 30, sort descending; the order in
\* which the scoring tasks had finished is kept no longer, nothing reads it
FilterRank ==
    /\ pc = "FILTER_RANK"
    /\ LET keys == SimNum(similarity_pct)
       IN  \E order \in sort_values(keys, KeepIdx(keys)) :
              ranked' = Frame(neighbour, similarity_pct, order)
    /\ completion' = <<>>
    /\ pc' = "SYNTHESIZE_REPORT"
    /\ UNCHANGED <<session, page>>
    /\ UNCHANGED <<parameter, geo, gdf, store, queryArgs, neighbour, tasks,
                   similarity_pct, sumTask, newsTask, result, calls, failedAt>>

\* get_llm_response_of_object runs up to its model call; the prompt holds the frame
IssueSummaryCall ==
    /\ pc = "SYNTHESIZE_REPORT"
    /\ sumTask.st = "pending"
    /\ sumTask' = [st |-> "called", prompt |-> ranked, text |-> ""]
    /\ calls' = [calls EXCEPT !.summary = @ + 1]
    /\ UNCHANGED <<session, page>>
    /\ UNCHANGED <<pc, parameter, geo, gdf, store, queryArgs, neighbour, tasks, completion,
                   similarity_pct, ranked, newsTask, result, failedAt>>

\* the reply to the summary call is polled for after the first step of the
\* second task of the gather
SummaryCallReturns ==
    /\ pc = "SYNTHESIZE_REPORT"
    /\ sumTask.st = "called"
    /\ newsTask.st # "pending"
    /\ \E t \in SummaryTexts : sumTask' = [sumTask EXCEPT !.st = "done", !.text = t]
    /\ UNCHANGED <<session, page>>
    /\ UNCHANGED <<pc, parameter, geo, gdf, store, queryArgs, neighbour, tasks, completion,
                   similarity_pct, ranked, newsTask, result, calls, failedAt>>

SummaryCallRaises ==
    /\ pc = "SYNTHESIZE_REPORT"
    /\ sumTask.st = "called"
    /\ newsTask.st # "pending"
    /\ sumTask' = [sumTask EXCEPT !.st = "failed"]
    /\ UNCHANGED <<session, page>>
    /\ UNCHANGED <<pc, parameter, geo, gdf, store, queryArgs, neighbour, tasks,
                   completion, similarity_pct, ranked, newsTask, result, calls,
                   failedAt>>

\* await asyncio.gather(...) of the two sub-operations raises in get_result
GatherSynthRaises ==
    /\ pc = "SYNTHESIZE_REPORT"
    /\ sumTask.st = "failed"
    /\ pc' = "RAISED"
    /\ failedAt' = "SYNTHESIZE_REPORT"
    /\ UNCHANGED <<session, page>>
    /\ UNCHANGED <<parameter, geo, gdf, store, queryArgs, neighbour, tasks, completion,
                   similarity_pct, ranked, sumTask, newsTask, result, calls>>

\* get_llm_response_of_task_giver, the second task of the gather: with DO_NEWS
\* off it returns "Aman!" in its first step, otherwise it asks the model
TaskGiver ==
    /\ pc = "SYNTHESIZE_REPORT"
    /\ sumTask.st # "pending"
    /\ newsTask.st = "pending"
    /\ IF ~DO_NEWS
       THEN /\ newsTask' = [st |-> "done", prompt |-> <<>>, text |-> Aman]
            /\ calls' = calls
       ELSE /\ \E t \in NewsTexts : newsTask' = [st |-> "done", prompt |-> <<>>, text |-> t]
            /\ calls' = [calls EXCEPT !.news = @ + 1]
    /\ UNCHANGED <<session, page>>
    /\ UNCHANGED <<pc, parameter, geo, gdf, store, queryArgs, neighbour, tasks, completion,
                   similarity_pct, ranked, sumTask, result, failedAt>>

\* summary, sentiment = await asyncio.gather(...): both sub-operations are done
SynthAllDone(a, b) == a.st = "done" /\ b.st = "done"

\* return neighbour.drop(columns=["geometry"], errors="ignore"), _build_json_output(...)
BuildOutput ==
    /\ pc = "SYNTHESIZE_REPORT"
    /\ SynthAllDone(sumTask, newsTask)
    /\ result' = [returned |-> TRUE, none |-> FALSE, table |-> ranked,
                  report |-> build_json_output(sumTask.text, newsTask.text)]
    /\ pc' = "DONE"
    /\ UNCHANGED <<session, page>>
    /\ UNCHANGED <<parameter, geo, gdf, store, queryArgs, neighbour, tasks, completion,
                   similarity_pct, ranked, sumTask, newsTask, calls, failedAt>>

Next ==
    \/ ValidateLocations
    \/ CreateGdf
    \/ FindNeighbour
    \/ FindNeighbourRaises
    \/ AddSimilarityEmpty
    \/ CreateTasks
    \/ \E i \in 1..MaxStore : IssueScoreCall(i)
    \/ \E i \in 1..MaxStore : ScoreCallReturns(i)
    \/ \E i \in 1..MaxStore : ScoreCallRaises(i)
    \/ GatherScoresRaises
    \/ GatherScores
    \/ FilterRank
    \/ IssueSummaryCall
    \/ SummaryCallReturns
    \/ SummaryCallRaises
    \/ GatherSynthRaises
    \/ TaskGiver
    \/ BuildOutput

Spec == Init /\ [][Next]_vars


(***************************************************************************)
(* The radius query on its own: find_neighbour against stores of every     *)
(* content up to MaxSmallStore rows and against stores larger than LIMIT.  *)
(***************************************************************************)
InitNeighbour ==
    /\ pc = "NBR_CALL"
    /\ parameter = Resolved(Num(1068, 1), Num(-62, 1))
    /\ store \in SeqsUpTo(NeighbourPool, MaxSmallStore) \cup BigStores
    /\ InitRest
    /\ session = NewSession
    /\ page = IdlePage

\* await find_neighbour(distance_m, lon, lat)
NeighbourQuery ==
    /\ pc = "NBR_CALL"
    /\ \E r \in Radii, tb \in TieBreaks :
         /\ queryArgs' = [distance_m |-> r,
                          lon |-> ToFloat(parameter.longitude).v,
                          lat |-> ToFloat(parameter.latitude).v]
         /\ neighbour' = find_neighbour(store, r, tb)
    /\ calls' = [calls EXCEPT !.query = @ + 1]
    /\ pc' = "NBR_DONE"
    /\ UNCHANGED <<session, page>>
    /\ UNCHANGED <<parameter, geo, gdf, store, tasks, completion, similarity_pct,
                   ranked, sumTask, newsTask, result, failedAt>>

NextNeighbour == NeighbourQuery

SpecNeighbour == InitNeighbour /\ [][NextNeighbour]_vars


(***************************************************************************)
(* The page: the submit handler of the form around get_result, the session *)
(* state it writes, and the tabs that read the session state.  One script  *)
(* run handles one submit; its locals are gone when it ends.               *)
(***************************************************************************)
\* submits that append to the history before it is cleared
MaxHistory == 2

\* rows in the store of a session
MaxSessionStore == 2

\* the rows a session's stores are built from
SessionPool ==
    { Row("A", Lon(107), 2500),
      Row("G", Lon(107), 8500),
      Row("A", Lon(107), 10001) }

\* what the user typed into the form's text inputs
Forms ==
    { [pemberi_tugas |-> "", alamat_lokasi |-> "Jl. Sudirman 1",
       longitude |-> <<>>, latitude |-> <<>>],
      [pemberi_tugas |-> "PT Maju", alamat_lokasi |-> "",
       longitude |-> <<>>, latitude |-> <<>>],
      [pemberi_tugas |-> "PT Maju", alamat_lokasi |-> "Jl. Sudirman 1",
       longitude |-> <<>>, latitude |-> <<>>],
      [pemberi_tugas |-> "PT Maju", alamat_lokasi |-> "Jl. Sudirman 1",
       longitude |-> <<"1", "0", "6", ".", "8">>, latitude |-> <<"-", "6", ".", "2">>],
      [pemberi_tugas |-> "PT Maju", alamat_lokasi |-> "Jl. Sudirman 1",
       longitude |-> <<"x">>, latitude |-> <<>>] }

\* pemberi_tugas and alamat_lokasi
RequiredFilled(form) == form.pemberi_tugas # "" /\ form.alamat_lokasi # ""

\* float(text) if text else None: [ok, v]; ok is FALSE where float raises
FieldToFloat(text) ==
    IF text = <<>> THEN [ok |-> TRUE, v |-> NoneVal]
    ELSE IF ParseFloat(text).ok
    THEN [ok |-> TRUE, v |-> [t |-> "float", s |-> <<>>, v |-> ParseFloat(text).v]]
    ELSE [ok |-> FALSE, v |-> NoneVal]

\* the param dict of the handler: [ok, param]
BuildParam(form) ==
    [ok    |-> FieldToFloat(form.longitude).ok /\ FieldToFloat(form.latitude).ok,
     param |-> [longitude |-> FieldToFloat(form.longitude).v,
                latitude  |-> FieldToFloat(form.latitude).v]]

IdleParameter == [longitude |-> NoneVal, latitude |-> NoneVal]

\* the script run ends: the handler's locals and the coroutine's state are dropped
EndOfRun ==
    /\ pc' = "IDLE"
    /\ parameter' = IdleParameter
    /\ geo' = NoGeocode
    /\ gdf' = NoGdf
    /\ queryArgs' = NoQuery
    /\ neighbour' = <<>>
    /\ tasks' = <<>>
    /\ completion' = <<>>
    /\ similarity_pct' = <<>>
    /\ ranked' = <<>>
    /\ sumTask' = IdleSub
    /\ newsTask' = IdleSub
    /\ result' = NotReturned
    /\ calls' = NoCalls
    /\ failedAt' = "none"

\* the tuple get_result returned, as the handler unpacks it: n_df, js
ReturnedDf(res) == IF res.none THEN DfNone ELSE Df(res.table)

ReturnedJs(res) == IF res.none THEN JsNone ELSE Js(res.report)

\* the statements of the try block after get_result has returned
StoreResult(sess, form, res) ==
    [result_ready |-> TRUE,
     neighbour_df |-> ReturnedDf(res),
     json_result  |-> ReturnedJs(res),
     history      |-> Append(sess.history,
                             [pemberi_tugas |-> form.pemberi_tugas,
                              alamat        |-> form.alamat_lokasi,
                              results       |-> ReturnedJs(res)])]

\* tab 2 renders without raising: js["summary"] and df.to_csv need a report and a frame
Tab2Renders(sess) ==
    sess.result_ready => ~sess.json_result.none /\ ~sess.neighbour_df.none

\* tab 3 renders without raising: item["results"]["summary"] needs a report
Tab3Renders(sess) ==
    \A k \in 1..Len(sess.history) : ~sess.history[k].results.none

InitSession ==
    /\ pc = "IDLE"
    /\ parameter = IdleParameter
    /\ store \in SeqsUpTo(SessionPool, MaxSessionStore)
    /\ InitRest
    /\ session = NewSession
    /\ page = IdlePage

\* submit with a required field left empty: st.error, nothing runs
SubmitIncomplete ==
    /\ pc = "IDLE"
    /\ \E form \in Forms :
         /\ ~RequiredFilled(form)
         /\ page' = [form |-> form, shown |-> "required"]
    /\ UNCHANGED <<pc, parameter, geo, gdf, store, queryArgs, neighbour, tasks,
                   completion, similarity_pct, ranked, sumTask, newsTask, result,
                   calls, failedAt, session>>

\* submit with a coordinate text float() rejects: the ValueError is raised
\* outside the try block and ends the script run
SubmitBadCoordinate ==
    /\ pc = "IDLE"
    /\ \E form \in Forms :
         /\ RequiredFilled(form)
         /\ ~BuildParam(form).ok
         /\ page' = [form |-> form, shown |-> "uncaught"]
    /\ UNCHANGED <<pc, parameter, geo, gdf, store, queryArgs, neighbour, tasks,
                   completion, similarity_pct, ranked, sumTask, newsTask, result,
                   calls, failedAt, session>>

\* submit: asyncio.run(agentic_view.get_result(param)) starts
SubmitRun ==
    /\ pc = "IDLE"
    /\ Len(session.history) < MaxHistory
    /\ \E form \in Forms :
         /\ RequiredFilled(form)
         /\ BuildParam(form).ok
         /\ parameter' = BuildParam(form).param
         /\ page' = [form |-> form, shown |-> "none"]
    /\ pc' = "RESOLVE_COORDS"
    /\ UNCHANGED <<geo, gdf, store, queryArgs, neighbour, tasks, completion,
                   similarity_pct, ranked, sumTask, newsTask, result, calls,
                   failedAt, session>>

\* get_result returned: the rest of the try block
SubmitReturns ==
    /\ pc \in {"DONE", "ABORT"}
    /\ result.returned
    /\ session' = StoreResult(session, page.form, result)
    /\ page' = [page EXCEPT !.shown = "success"]
    /\ EndOfRun
    /\ UNCHANGED store

\* get_result raised: except Exception as e: st.error(...)
SubmitRaises ==
    /\ pc = "RAISED"
    /\ page' = [page EXCEPT !.shown = "error"]
    /\ EndOfRun
    /\ UNCHANGED <<store, session>>

\* the button under the history list; a list that fails to render, or a tab 2
\* that raised before it, never gets as far as drawing the button
ClearHistory ==
    /\ pc = "IDLE"
    /\ session.history # <<>>
    /\ Tab2Renders(session)
    /\ Tab3Renders(session)
    /\ session' = [session EXCEPT !.history = <<>>]
    /\ UNCHANGED <<pc, parameter, geo, gdf, store, queryArgs, neighbour, tasks,
                   completion, similarity_pct, ranked, sumTask, newsTask, result,
                   calls, failedAt, page>>

NextSession ==
    \/ SubmitIncomplete
    \/ SubmitBadCoordinate
    \/ SubmitRun
    \/ Next
    \/ SubmitReturns
    \/ SubmitRaises
    \/ ClearHistory

SpecSession == InitSession /\ [][NextSession]_vars


(***************************************************************************)
(* Properties.                                                             *)
(***************************************************************************)
\* the similarity_pct column has been assigned
Scored ==
    \/ pc \in {"FILTER_RANK", "SYNTHESIZE_REPORT", "DONE"}
    \/ pc = "RAISED" /\ failedAt = "SYNTHESIZE_REPORT"

\* the filter and sort have run
Ranked ==
    \/ pc \in {"SYNTHESIZE_REPORT", "DONE"}
    \/ pc = "RAISED" /\ failedAt = "SYNTHESIZE_REPORT"

\* what the model answers for candidate i of the frame
ReplyFor(i) == StubReply(neighbour[i].kind)

\* the reply for candidate i is an error, has no first line, or its first line is no number
BadReply(i) ==
    \/ ~ReplyFor(i).ok
    \/ Strip(ReplyFor(i).text) = <<>>
    \/ ~ParseFloat(Strip(RemovePct(FirstLine(Strip(ReplyFor(i).text))))).ok

Zero == Num(0, 0)

\* C1: a scoring call that raises, or a reply that is malformed or empty, does
\* not abort the run: the batch completes, that candidate's score is 0 and the
\* other candidates keep the score of their own reply.
C1_ScoringFailureDegradesToZero ==
    /\ failedAt # "SCORE_CANDIDATES"
    /\ Scored =>
         /\ Len(similarity_pct) = Len(neighbour)
         /\ \A i \in 1..Len(neighbour) :
              IF BadReply(i)
              THEN NumEq(pct_to_float(similarity_pct[i]), Zero)
              ELSE similarity_pct[i] = FirstLine(Strip(ReplyFor(i).text))

\* the first line of the reply the stub gives for candidate i
ExpectedScore(i) == FirstLine(Strip(ReplyFor(i).text))

\* the candidates the filter has to keep, from the replies alone
ExpectedKept ==
    {i \in 1..Len(neighbour) :
        NumGE(pct_to_float(ExpectedScore(i)), Num(Threshold, 0))}

\* C2: whatever the order in which the scoring calls finish, the column has one
\* score per candidate and the score at position i is the one the call for
\* candidate i returned; the set of retained candidates, each with its own
\* score, is therefore a function of the request, the store and the stub.
C2_ScoresPairedByPosition ==
    /\ Scored =>
         /\ Len(similarity_pct) = Len(neighbour)
         /\ \A i \in 1..Len(neighbour) : similarity_pct[i] = ExpectedScore(i)
    /\ pc = "DONE" =>
         /\ {result.table[p].idx : p \in 1..Len(result.table)} = ExpectedKept
         /\ \A p \in 1..Len(result.table) :
              /\ result.table[p].similarity_pct = ExpectedScore(result.table[p].idx)
              /\ result.table[p].src = neighbour[result.table[p].idx].src

\* C2's case: three calls finished in another order than they were issued, with
\* different scores, and the column has been assigned
C2_Witness ==
    /\ pc = "FILTER_RANK"
    /\ Len(neighbour) = 3
    /\ completion = <<3, 1, 2>>
    /\ similarity_pct[1] # similarity_pct[2]
    /\ similarity_pct[2] # similarity_pct[3]
    /\ similarity_pct[1] # similarity_pct[3]

\* C3: the filter's output is a sub-collection of the scored frame, every row
\* of it has a parsed similarity >= 30, no row with a parsed similarity >= 30
\* is missing, and the rows are in non-increasing order of similarity; scores
\* 85%, 20%, 45% give the rows of 85% and 45% in that order.
C3_FilterRank ==
    Ranked =>
      /\ \A p \in 1..Len(ranked) :
           /\ ranked[p].idx \in 1..Len(neighbour)
           /\ ranked[p].src = neighbour[ranked[p].idx].src
           /\ ranked[p].kind = neighbour[ranked[p].idx].kind
           /\ ranked[p].distance_m = neighbour[ranked[p].idx].distance_m
           /\ ranked[p].similarity_pct = similarity_pct[ranked[p].idx]
           /\ NumGE(pct_to_float(ranked[p].similarity_pct), Num(30, 0))
      /\ \A p, q \in 1..Len(ranked) : p # q => ranked[p].idx # ranked[q].idx
      /\ \A i \in 1..Len(neighbour) :
           NumGE(pct_to_float(similarity_pct[i]), Num(30, 0))
             => \E p \in 1..Len(ranked) : ranked[p].idx = i
      /\ \A p, q \in 1..Len(ranked) :
           p < q => NumGE(pct_to_float(ranked[p].similarity_pct),
                          pct_to_float(ranked[q].similarity_pct))
      /\ similarity_pct = << <<"8", "5", "%">>, <<"2", "0", "%">>, <<"4", "5", "%">> >>
           => [p \in 1..Len(ranked) |-> ranked[p].idx] = <<1, 3>>

\* C3's case: the scores 85%, 20%, 45% were filtered and ranked
C3_Witness ==
    /\ pc = "DONE"
    /\ similarity_pct = << <<"8", "5", "%">>, <<"2", "0", "%">>, <<"4", "5", "%">> >>
    /\ Len(result.table) = 2

\* C4: two retained candidates of equal similarity are in the output in the
\* order they had in the input frame (the sort is stable).
C4_TiesKeepInputOrder ==
    Ranked =>
      \A p, q \in 1..Len(ranked) :
         (p < q /\ NumEq(pct_to_float(ranked[p].similarity_pct),
                         pct_to_float(ranked[q].similarity_pct)))
           => ranked[p].idx < ranked[q].idx

\* the coordinates of the request cannot be parsed
Unparseable(param) == ~(ToFloat(param.longitude).ok /\ ToFloat(param.latitude).ok)

\* C5: when the coordinates cannot be parsed and the geocode fails (an error
\* or no result), get_result returns (None, None) without raising, and no
\* spatial query, scoring call or report-synthesis call is issued in that run.
C5_UnresolvableAborts ==
    (Unparseable(parameter) /\ geo.kind \in {"error", "zero"}) =>
      /\ pc = "ABORT"
      /\ result = NoResult
      /\ failedAt = "none"
      /\ calls.query = 0
      /\ calls.score = 0
      /\ calls.summary = 0
      /\ calls.news = 0
      /\ ~ENABLED Next

\* C5's case: the geocode found nothing for a request without coordinates, and
\* the store holds rows a query would have returned
C5_Witness ==
    /\ pc = "ABORT"
    /\ geo.kind = "zero"
    /\ parameter.longitude = NoneVal
    /\ Len(find_neighbour(store, DefaultRadius, "scan")) = 3

\* geographic bounds: longitude in [-180, 180], latitude in [-90, 90]
InGeoBounds(lon, lat) ==
    /\ NumGE(lon, Num(-180, 0)) /\ NumGE(Num(180, 0), lon)
    /\ NumGE(lat, Num(-90, 0))  /\ NumGE(Num(90, 0), lat)

\* C6: once validate_locations has accepted the request its coordinates are
\* within geographic bounds, and the spatial query is only issued with such
\* coordinates.
C6_CoordinatesInBounds ==
    /\ pc \notin {"RESOLVE_COORDS", "ABORT"} =>
         InGeoBounds(ToFloat(parameter.longitude).v, ToFloat(parameter.latitude).v)
    /\ calls.query > 0 => InGeoBounds(queryArgs.lon, queryArgs.lat)

\* C7: every score of the column is an integer in 0..100
C7_ScoreIsPercentage ==
    Scored =>
      \A i \in 1..Len(similarity_pct) :
         LET v == pct_to_float(similarity_pct[i])
         IN  IsInteger(v) /\ NumGE(v, Zero) /\ NumGE(Num(100, 0), v)


\* the store rows the query's WHERE clause accepts for radius r
InReach(r) ==
    {i \in 1..Len(store) :
        /\ store[i].dist > 0
        /\ store[i].dist <= r
        /\ ~store[i].lon.null
        /\ store[i].lon.v # 0}

\* the store rows the frame was read from
Returned == {neighbour[p].src : p \in 1..Len(neighbour)}

\* C8: find_neighbour returns at most 20 records, each with 0 < distance <=
\* radius and a stored longitude that is not 0, in ascending order of
\* distance; they are the nearest qualifying records (a qualifying row is left
\* out only when 20 rows at most as far are returned), and the result is the
\* empty sequence when nothing qualifies.
C8_NearestTwentyInReach ==
    pc = "NBR_DONE" =>
      LET r == queryArgs.distance_m
      IN  /\ Len(neighbour) <= 20
          /\ \A p \in 1..Len(neighbour) :
               /\ neighbour[p].src \in InReach(r)
               /\ neighbour[p].distance_m = store[neighbour[p].src].dist
               /\ neighbour[p].kind = store[neighbour[p].src].kind
          /\ \A p, q \in 1..Len(neighbour) :
               /\ p < q => neighbour[p].distance_m <= neighbour[q].distance_m
               /\ p # q => neighbour[p].src # neighbour[q].src
          /\ \A i \in InReach(r) \ Returned :
               /\ Len(neighbour) = 20
               /\ store[i].dist >= neighbour[20].distance_m
          /\ InReach(r) = {} => neighbour = <<>>

\* C8's case: more than 20 rows are in reach, some of them as far as the last
\* record returned, and rows out of reach, at distance 0 and of longitude 0 and
\* NULL are in the store
C8_Witness ==
    /\ pc = "NBR_DONE"
    /\ Cardinality(InReach(queryArgs.distance_m)) > 20
    /\ Len(neighbour) = 20
    /\ \E i \in InReach(queryArgs.distance_m) \ Returned :
         store[i].dist = neighbour[20].distance_m
    /\ \E i \in 1..Len(store) : store[i].dist = 0
    /\ \E i \in 1..Len(store) : store[i].dist > queryArgs.distance_m
    /\ \E i \in 1..Len(store) : store[i].lon.null
    /\ \E i \in 1..Len(store) : ~store[i].lon.null /\ store[i].lon.v = 0

\* the radius query of the run came back with no candidate
NoCandidates ==
    /\ pc \in {"SCORE_CANDIDATES", "FILTER_RANK", "SYNTHESIZE_REPORT", "DONE", "RAISED"}
    /\ failedAt # "QUERY_NEIGHBORS"
    /\ Len(neighbour) = 0

\* C9: with the reputation check off and no candidate within the radius, the
\* run issues no scoring call and no reputation call, goes on up to DONE unless
\* the conflict-summary call itself raises, and at DONE the table is empty,
\* exactly one conflict-summary call was issued, its text is the report's
\* summary and client_sentiment is "Aman!".
C9_NoCandidatesStillReports ==
    (~DO_NEWS /\ NoCandidates) =>
      /\ calls.score = 0
      /\ calls.news = 0
      /\ calls.summary <= 1
      /\ tasks = <<>>
      /\ pc = "RAISED" => failedAt = "SYNTHESIZE_REPORT"
      /\ pc \notin {"DONE", "RAISED"} => ENABLED Next
      /\ pc = "DONE" =>
           /\ result.returned /\ ~result.none
           /\ result.table = <<>>
           /\ calls.summary = 1
           /\ sumTask.prompt = <<>>
           /\ sumTask.text \in SummaryTexts
           /\ result.report.summary = sumTask.text
           /\ result.report.client_sentiment = "Aman!"

\* C9's case: a run with coordinates given, a store whose rows are all out of
\* reach, and the report built
C9_Witness ==
    /\ pc = "DONE"
    /\ geo = NoGeocode
    /\ Len(store) = 2
    /\ Len(neighbour) = 0
    /\ result.report.summary = "ringkasan-2"

\* the steps from one phase to the next
PhaseSteps ==
    { <<"RESOLVE_COORDS", "BUILD_REQUEST_RECORD">>,
      <<"RESOLVE_COORDS", "ABORT">>,
      <<"BUILD_REQUEST_RECORD", "QUERY_NEIGHBORS">>,
      <<"QUERY_NEIGHBORS", "SCORE_CANDIDATES">>,
      <<"QUERY_NEIGHBORS", "RAISED">>,
      <<"SCORE_CANDIDATES", "FILTER_RANK">>,
      <<"SCORE_CANDIDATES", "RAISED">>,
      <<"FILTER_RANK", "SYNTHESIZE_REPORT">>,
      <<"SYNTHESIZE_REPORT", "DONE">>,
      <<"SYNTHESIZE_REPORT", "RAISED">> }

\* what holds of a phase while the run is in it
PhaseBarriers ==
    /\ pc \in {"RESOLVE_COORDS", "BUILD_REQUEST_RECORD", "QUERY_NEIGHBORS"} =>
         calls.score = 0 /\ tasks = <<>>
    /\ pc \in {"RESOLVE_COORDS", "BUILD_REQUEST_RECORD", "QUERY_NEIGHBORS",
               "SCORE_CANDIDATES"} =>
         /\ similarity_pct = <<>> /\ ranked = <<>>
         /\ calls.summary = 0 /\ calls.news = 0
         /\ sumTask.st = "pending" /\ newsTask.st = "pending"
    /\ pc \in {"FILTER_RANK", "SYNTHESIZE_REPORT", "DONE"} =>
         /\ Len(tasks) = Len(neighbour)
         /\ calls.score = Len(neighbour)
         /\ \A i \in 1..Len(tasks) : tasks[i].st = "done"
    /\ pc = "FILTER_RANK" =>
         ranked = <<>> /\ sumTask.st = "pending" /\ newsTask.st = "pending"
    /\ sumTask.st # "pending" =>
         /\ Ranked
         /\ sumTask.prompt = ranked
         /\ \A p \in 1..Len(sumTask.prompt) :
              NumGE(pct_to_float(sumTask.prompt[p].similarity_pct), Num(30, 0))
    /\ newsTask.st # "pending" => Ranked
    /\ result.returned =>
         \/ pc = "ABORT" /\ result.none
         \/ /\ pc = "DONE" /\ ~result.none
            /\ sumTask.st = "done" /\ newsTask.st = "done"
            /\ result.report.summary = sumTask.text
            /\ result.report.client_sentiment = newsTask.text
    /\ pc = "DONE" => result.returned

\* C10: the phases follow one another in the order RESOLVE_COORDS,
\* (BUILD_REQUEST_RECORD,) QUERY_NEIGHBORS, SCORE_CANDIDATES, FILTER_RANK,
\* SYNTHESIZE_REPORT, DONE, a run leaving that line only to ABORT or with an
\* exception; the filter runs only once every scoring call of the batch has
\* completed, the conflict-summary call is issued with the filtered and ranked
\* frame, and the report is built only after both sub-operations are done.
C10_PhaseOrderAndBarriers ==
    /\ []PhaseBarriers
    /\ [][pc' # pc => <<pc, pc'>> \in PhaseSteps]_vars

\* C10's case: a run through every phase, with geocoded coordinates and three
\* scoring calls, of which the filter kept two
C10_Witness ==
    /\ pc = "DONE"
    /\ Len(tasks) = 3
    /\ calls = [geocode |-> 1, query |-> 1, score |-> 3, summary |-> 1, news |-> 0]
    /\ Len(result.table) = 2
    /\ geo.kind = "ok"

\* js is a report carrying summary and client_sentiment, not None
IsReport(js) == ~js.none /\ DOMAIN js.report = {"summary", "client_sentiment"}

\* what the tabs read of the session state is a report wherever they index into it
SessionHoldsReports ==
    /\ session.result_ready => IsReport(session.json_result)
    /\ \A k \in 1..Len(session.history) : IsReport(session.history[k].results)

\* the handler's step after a run that returned None, None
AbortLeavesSession ==
    (pc = "ABORT" /\ result.none) => (session' = session /\ page'.shown # "success")

\* C11: after any sequence of submits, whenever result_ready is true the stored
\* json_result is a report with summary and client_sentiment and never None, and
\* so is the results of every history entry; a run that aborts with (None, None)
\* leaves result_ready, neighbour_df, json_result and history as they were and
\* shows no success message.
C11_SessionHoldsReports == []SessionHoldsReports /\ [][AbortLeavesSession]_vars

=============================================================================
